---- MODULE Spec2Model ----
(***************************************************************************)
(* Order placement and capacity reservation of the afterschool lessons     *)
(* backend (server.js).  server.js holds two variants of the server; both  *)
(* POST /orders handlers run against the same database:                    *)
(*   handler 1 = lines 98-143 (order numbers, status pending),             *)
(*   handler 2 = lines 376-431 (line item and notes validation).           *)
(* Every await on the database is one atomic step of the store; the        *)
(* synchronous code between two awaits touches no shared state and is      *)
(* folded into the step that follows the await.                            *)
(* counter.value.seq (line 126) is read as the driver returns it when      *)
(* findOneAndUpdate yields the { value } wrapper.                          *)
(***************************************************************************)
EXTENDS Integers, Sequences, FiniteSets, TLC

\* ---------------------------------------------------------------- bounds
MaxSpace == 2
MaxQty == 2
MaxAdminOps == 1
FirstYear == 2025
YearSpan == 1
MaxRestarts == 1
MaxTime == 2

\* ------------------------------------------------------ program constants
NameMinLen == 2
NameMaxLen == 50
PhoneDigitsAfterZero == 10
NotesMaxLen == 250
PadWidth == 4

\* ----------------------------------------------------------------- inputs
Reqs == {"r1", "r2"}
Handlers == {1, 2}
\* lesson documents that can exist in the lessons collection
LessonIds == {"A", "B", "C"}
\* "bad" stands for a string that is not a well-formed ObjectId
ItemIds == {"A", "B", "bad"}
InitialLessons == {"A", "B"}
Tokens == {"valid", "none"}

UpperLetters == {"A","B","C","D","E","F","G","H","I","J","K","L","M",
                 "N","O","P","Q","R","S","T","U","V","W","X","Y","Z"}
LowerLetters == {"a","b","c","d","e","f","g","h","i","j","k","l","m",
                 "n","o","p","q","r","s","t","u","v","w","x","y","z"}
Whitespace == {" ", "\t", "\n"}
DigitChars == <<"0","1","2","3","4","5","6","7","8","9">>
DigitSet == {DigitChars[k] : k \in 1..10}

\* strings are sequences of one-character strings
NameJo == <<"J","o">>
NameJ0 == <<"J","0">>
NameJ == <<"J">>
NameLong == [k \in 1..(NameMaxLen + 1) |-> "a"]
PhoneGood == <<"0","7","1","2","3","4","5","6","7","8","9">>
PhoneShort == <<"7","1","2","3","4","5","6","7","8","9">>
PhoneNoZero == <<"1","7","1","2","3","4","5","6","7","8","9">>

\* quantities a client can send: negative, zero and positive integers
Qtys == {-1} \cup 0..MaxQty
MkItem(i, q) == [id |-> i, qty |-> q]
SingleItems == {MkItem(i, q) : i \in InitialLessons, q \in Qtys} \cup {MkItem("bad", 1)}
PairItems == {MkItem(i, q) : i \in InitialLessons, q \in {-1, 1}} \cup {MkItem("bad", 1)}

\* the lessons arrays of the sample requests: none, one or two line items
ItemSeqs ==
    {<<>>} \cup {<<a>> : a \in SingleItems} \cup {<<a, b>> : a \in PairItems, b \in PairItems}

\* req.body: name, phone, lessons, notes (notes by its length only)
MkBody(n, p, arr, ls, nl) ==
    [name |-> n, phone |-> p, isArray |-> arr, lessons |-> ls, notesLen |-> nl]

Bodies ==
    {MkBody(NameJo, PhoneGood, TRUE, ls, 0) : ls \in ItemSeqs}
    \cup {MkBody(n, PhoneGood, TRUE, <<MkItem("A", 1)>>, 0) :
             n \in {NameJ0, NameJ, NameLong, <<>>}}
    \cup {MkBody(NameJo, p, TRUE, <<MkItem("A", 1)>>, 0) :
             p \in {PhoneShort, PhoneNoZero, <<>>}}
    \cup {MkBody(NameJo, PhoneGood, FALSE, <<>>, 0)}
    \cup {MkBody(NameJo, PhoneGood, TRUE, <<MkItem("A", 1)>>, nl) :
             nl \in {NotesMaxLen, NotesMaxLen + 1}}

\* the smaller sample served while the admin routes are in use
EnvBodies ==
    {MkBody(NameJo, PhoneGood, TRUE, <<MkItem("A", q)>>, 0) : q \in {-1, MaxQty}}
    \cup {MkBody(NameJo, PhoneGood, TRUE, <<MkItem("A", 1), MkItem("B", 1)>>, 0),
          MkBody(NameJ0, PhoneGood, TRUE, <<MkItem("A", 1)>>, 0)}

NoBody == MkBody(<<>>, <<>>, FALSE, <<>>, 0)
NoResult == [code |-> 0, kind |-> "none", lesson |-> "none"]

\* ------------------------------------------------------------------ state
VARIABLES
    space,      \* lessons collection: lesson id -> space, for existing lessons
    initSpace,  \* history: the lessons collection at the start
    usedIds,    \* lesson ids ever inserted (ids are never reused)
    seq,        \* counters document { _id: 'orderNumber', seq }
    orders,     \* orders collection in insertion order
    pc,         \* position of each POST /orders call
    handler,    \* which of the two handlers serves the call
    body,       \* req.body of the call
    idx,        \* index of the line item the reservation loop is at
    num,        \* counter.value.seq obtained by the call (0 = none)
    orderNumber,\* order number string built by the call (<<>> = none)
    result,     \* response sent (code 0 = none yet)
    taken,      \* history: net amount the call took from each lesson
    adminOps,   \* number of admin requests served so far
    boots,      \* number of times connectDB has run again (process restarts)
    epoch       \* history: the value of boots when the call got its number

vars == <<space, initSpace, usedIds, seq, orders, pc, handler, body, idx, num,
          orderNumber, result, taken, adminOps, boots, epoch>>

dbVars == <<space, usedIds, seq, orders>>

\* ---------------------------------------------------------------- helpers
\* /^[A-Za-z\s]{2,50}$/.test(name), with !name for the missing or empty name
NameValid(n) ==
    /\ Len(n) >= NameMinLen
    /\ Len(n) <= NameMaxLen
    /\ \A k \in 1..Len(n) : n[k] \in UpperLetters \cup LowerLetters \cup Whitespace

\* /^0\d{10}$/.test(phone)
PhoneValid(p) ==
    /\ Len(p) = 1 + PhoneDigitsAfterZero
    /\ p[1] = "0"
    /\ \A k \in 2..Len(p) : p[k] \in DigitSet

\* ObjectId.isValid(id); new ObjectId(id) throws exactly when it is false
ObjectIdValid(id) == id \in LessonIds

\* Number.isInteger(qty) && qty > 0 (quantities of the model are integers)
QtyValid(q) == q \in Int /\ q > 0

LineItemValid(l) == ObjectIdValid(l.id) /\ QtyValid(l.qty)

\* validation of handler 1 (lines 103-108): "ok" or the error kind
ValidationError1(b) ==
    IF ~NameValid(b.name) THEN "name"
    ELSE IF ~PhoneValid(b.phone) THEN "phone"
    ELSE IF ~b.isArray \/ Len(b.lessons) = 0 THEN "lessons"
    ELSE "ok"

\* validation of handler 2 (lines 383-408)
ValidationError2(b) ==
    IF ~NameValid(b.name) THEN "name"
    ELSE IF ~PhoneValid(b.phone) THEN "phone"
    ELSE IF ~b.isArray \/ Len(b.lessons) = 0 THEN "lessons"
    ELSE IF \E k \in 1..Len(b.lessons) : ~LineItemValid(b.lessons[k]) THEN "lineitem"
    ELSE IF b.notesLen # 0 /\ b.notesLen > NotesMaxLen THEN "notes"
    ELSE "ok"

ValidationError(h, b) == IF h = 1 THEN ValidationError1(b) ELSE ValidationError2(b)

ValidationKinds == {"name", "phone", "lessons", "lineitem", "notes"}

\* mutant: the filter uses $gt, a request for all the units left is refused
FitsStrict(sp, l) == l.id \in DOMAIN sp /\ sp[l.id] > l.qty

\* mutant: the filter tests space >= 0 instead of space >= qty
FitsNonNegative(sp, l) == l.id \in DOMAIN sp /\ sp[l.id] >= 0

\* the filter { _id: id, space: { $gte: qty } } matches a lesson document
Fits(sp, l) == l.id \in DOMAIN sp /\ sp[l.id] >= l.qty

\* mutant: one unit per line item, whatever its quantity
DecrementOne(sp, l) == [sp EXCEPT ![l.id] = @ - 1]

\* { $inc: { space: -qty } } applied to the matched lesson
Decrement(sp, l) == [sp EXCEPT ![l.id] = @ - l.qty]

\* mutant: $inc by 2
NextSeqTwo(n) == n + 2

\* mutant: $set where $inc was meant
NextSeqSet(n) == 1

\* mutant: the update leaves the counter where it is
NextSeqStuck(n) == n

\* { $inc: { seq: 1 } } on the counter document
NextSeq(n) == n + 1

\* mutant: the answer names the first line item of the order
CapacityErrorFirst(ls, k) == [code |-> 400, kind |-> "capacity", lesson |-> ls[1].id]

\* the 400 answer of the reservation loop names the line item it stopped at
CapacityError(ls, k) == [code |-> 400, kind |-> "capacity", lesson |-> ls[k].id]

\* mutant: the admin routes take any number
SpaceValidAny(sv) == TRUE

\* admin validation of space: typeof space === 'number' and not space < 0
SpaceValid(sv) == sv >= 0

\* what a step took from each lesson, read off the lessons collection
Took(old, new) ==
    [l \in LessonIds |-> IF l \in DOMAIN old /\ l \in DOMAIN new THEN old[l] - new[l] ELSE 0]

RECURSIVE Digits(_)
\* String(n) for n >= 0
Digits(n) == IF n < 10 THEN <<DigitChars[n + 1]>>
             ELSE Append(Digits(n \div 10), DigitChars[(n % 10) + 1])

\* mutant: the number is cut to its last w characters, ('0000' + s).slice(-w)
PadStartSlice(s, w, c) ==
    LET p == [k \in 1..w |-> c] \o s IN SubSeq(p, Len(p) - w + 1, Len(p))

RECURSIVE PadStart(_, _, _)
\* s.padStart(w, c)
PadStart(s, w, c) == IF Len(s) >= w THEN s ELSE PadStart(<<c>> \o s, w, c)

\* `ORD-${new Date().getFullYear()}-${String(seq).padStart(4, '0')}`
OrderNumber(y, n) ==
    <<"O", "R", "D", "-">> \o Digits(y) \o <<"-">> \o PadStart(Digits(n), PadWidth, "0")

RECURSIVE SumQty(_, _)
\* total quantity of lesson l over the line items ls
SumQty(ls, l) ==
    IF ls = <<>> THEN 0
    ELSE (IF Head(ls).id = l THEN Head(ls).qty ELSE 0) + SumQty(Tail(ls), l)

ZeroTaken == [l \in LessonIds |-> 0]

\* mutant: connectDB writes seq 0 whether or not the counter exists
SetAlways(docs) == 0

\* connectDB: updateOne({ _id: 'orderNumber' }, { $setOnInsert: { seq: 0 } },
\* { upsert: true }); docs is the counter document found (<<>> = none),
\* the result is seq afterwards
SetOnInsert(docs) == IF docs = <<>> THEN 0 ELSE docs[1]

\* ------------------------------------------------------------------- Init
Init ==
    /\ space \in [InitialLessons -> 0..MaxSpace]
    /\ initSpace = space
    /\ usedIds = InitialLessons
    /\ seq = 0
    /\ orders = <<>>
    /\ pc = [r \in Reqs |-> "idle"]
    /\ handler = [r \in Reqs |-> 1]
    /\ body = [r \in Reqs |-> NoBody]
    /\ idx = [r \in Reqs |-> 0]
    /\ num = [r \in Reqs |-> 0]
    /\ orderNumber = [r \in Reqs |-> <<>>]
    /\ result = [r \in Reqs |-> NoResult]
    /\ taken = [r \in Reqs |-> ZeroTaken]
    /\ adminOps = 0
    /\ boots = 0
    /\ epoch = [r \in Reqs |-> 0]

\* ------------------------------------------------------- POST /orders
\* a request arrives at one of the two handlers
Submit(r, h, b) ==
    /\ pc[r] = "idle"
    /\ pc' = [pc EXCEPT ![r] = "Validating"]
    /\ handler' = [handler EXCEPT ![r] = h]
    /\ body' = [body EXCEPT ![r] = b]
    /\ UNCHANGED <<dbVars, initSpace, idx, num, orderNumber, result, taken, adminOps, boots, epoch>>

\* mutant: the first line item is reserved before the body is validated
ValidateLate(r) ==
    /\ pc[r] = "Validating"
    /\ LET err == ValidationError(handler[r], body[r])
           ls == body[r].lessons
           early == Len(ls) > 0 /\ ObjectIdValid(ls[1].id) /\ Fits(space, ls[1]) IN
         /\ space' = IF early THEN Decrement(space, ls[1]) ELSE space
         /\ taken' = [taken EXCEPT ![r] =
                        [x \in LessonIds |-> @[x] + Took(space, space')[x]]]
         /\ IF err # "ok"
            THEN /\ pc' = [pc EXCEPT ![r] = "Failed"]
                 /\ result' = [result EXCEPT ![r] = [code |-> 400, kind |-> err, lesson |-> "none"]]
                 /\ idx' = idx
            ELSE /\ pc' = [pc EXCEPT ![r] = IF early /\ Len(ls) = 1
                                            THEN (IF handler[r] = 1 THEN "Numbering" ELSE "Persisting")
                                            ELSE "Reserving"]
                 /\ idx' = [idx EXCEPT ![r] = IF early THEN 2 ELSE 1]
                 /\ result' = result
    /\ UNCHANGED <<initSpace, usedIds, seq, orders, handler, body, num, orderNumber, adminOps, boots, epoch>>

\* the validation block: a 400 response, or on to the reservation loop
Validate(r) ==
    /\ pc[r] = "Validating"
    /\ LET err == ValidationError(handler[r], body[r]) IN
         IF err # "ok"
         THEN /\ pc' = [pc EXCEPT ![r] = "Failed"]
              /\ result' = [result EXCEPT ![r] = [code |-> 400, kind |-> err, lesson |-> "none"]]
              /\ idx' = idx
         ELSE /\ pc' = [pc EXCEPT ![r] = "Reserving"]
              /\ idx' = [idx EXCEPT ![r] = 1]
              /\ result' = result
    /\ UNCHANGED <<dbVars, initSpace, handler, body, num, orderNumber, taken, adminOps, boots, epoch>>

\* mutant: the decrements of a call are held back and written together when
\* its last line item fits
ReserveAtomic(r) ==
    /\ pc[r] = "Reserving"
    /\ LET l == body[r].lessons[idx[r]] IN
         IF ~ObjectIdValid(l.id)
         THEN /\ pc' = [pc EXCEPT ![r] = "Failed"]
              /\ result' = [result EXCEPT ![r] = [code |-> 500, kind |-> "exception", lesson |-> "none"]]
              /\ UNCHANGED <<space, idx, taken>>
         ELSE IF Fits(space, l)
         THEN /\ space' = IF idx[r] < Len(body[r].lessons) THEN space
                          ELSE [x \in DOMAIN space |-> space[x] - SumQty(body[r].lessons, x)]
              /\ taken' = [taken EXCEPT ![r] =
                             [x \in LessonIds |-> @[x] + Took(space, space')[x]]]
              /\ idx' = [idx EXCEPT ![r] = @ + 1]
              /\ pc' = [pc EXCEPT ![r] =
                          IF idx[r] < Len(body[r].lessons) THEN "Reserving"
                          ELSE IF handler[r] = 1 THEN "Numbering" ELSE "Persisting"]
              /\ result' = result
         ELSE /\ pc' = [pc EXCEPT ![r] = "Failed"]
              /\ result' = [result EXCEPT ![r] = CapacityError(body[r].lessons, idx[r])]
              /\ UNCHANGED <<space, idx, taken>>
    /\ UNCHANGED <<initSpace, usedIds, seq, orders, handler, body, num, orderNumber, adminOps, boots, epoch>>

\* mutant: a line item that does not fit sends the loop back to the first
\* line item to try again
ReserveRetry(r) ==
    /\ pc[r] = "Reserving"
    /\ LET l == body[r].lessons[idx[r]] IN
         IF ~ObjectIdValid(l.id)
         THEN /\ pc' = [pc EXCEPT ![r] = "Failed"]
              /\ result' = [result EXCEPT ![r] = [code |-> 500, kind |-> "exception", lesson |-> "none"]]
              /\ UNCHANGED <<space, idx, taken>>
         ELSE IF Fits(space, l)
         THEN /\ space' = Decrement(space, l)
              /\ taken' = [taken EXCEPT ![r] =
                             [x \in LessonIds |-> @[x] + Took(space, space')[x]]]
              /\ idx' = [idx EXCEPT ![r] = @ + 1]
              /\ pc' = [pc EXCEPT ![r] =
                          IF idx[r] < Len(body[r].lessons) THEN "Reserving"
                          ELSE IF handler[r] = 1 THEN "Numbering" ELSE "Persisting"]
              /\ result' = result
         ELSE /\ idx' = [idx EXCEPT ![r] = 1]
              /\ UNCHANGED <<space, taken, pc, result>>
    /\ UNCHANGED <<initSpace, usedIds, seq, orders, handler, body, num, orderNumber, adminOps, boots, epoch>>

\* mutant: a line item that does not fit is skipped and the loop goes on
ReserveSkip(r) ==
    /\ pc[r] = "Reserving"
    /\ LET l == body[r].lessons[idx[r]] IN
         IF ~ObjectIdValid(l.id)
         THEN /\ pc' = [pc EXCEPT ![r] = "Failed"]
              /\ result' = [result EXCEPT ![r] = [code |-> 500, kind |-> "exception", lesson |-> "none"]]
              /\ UNCHANGED <<space, idx, taken>>
         ELSE IF Fits(space, l)
         THEN /\ space' = Decrement(space, l)
              /\ taken' = [taken EXCEPT ![r] =
                             [x \in LessonIds |-> @[x] + Took(space, space')[x]]]
              /\ idx' = [idx EXCEPT ![r] = @ + 1]
              /\ pc' = [pc EXCEPT ![r] =
                          IF idx[r] < Len(body[r].lessons) THEN "Reserving"
                          ELSE IF handler[r] = 1 THEN "Numbering" ELSE "Persisting"]
              /\ result' = result
         ELSE IF idx[r] < Len(body[r].lessons)
         THEN /\ idx' = [idx EXCEPT ![r] = @ + 1]
              /\ UNCHANGED <<space, taken, pc, result>>
         ELSE /\ pc' = [pc EXCEPT ![r] = "Failed"]
              /\ result' = [result EXCEPT ![r] = CapacityError(body[r].lessons, idx[r])]
              /\ UNCHANGED <<space, idx, taken>>
    /\ UNCHANGED <<initSpace, usedIds, seq, orders, handler, body, num, orderNumber, adminOps, boots, epoch>>

\* one turn of the reservation loop: the conditional updateOne and the
\* matchedCount test that follows it
Reserve(r) ==
    /\ pc[r] = "Reserving"
    /\ LET l == body[r].lessons[idx[r]] IN
         IF ~ObjectIdValid(l.id)
         THEN \* new ObjectId(l.id) throws: the catch block answers 500
              /\ pc' = [pc EXCEPT ![r] = "Failed"]
              /\ result' = [result EXCEPT ![r] = [code |-> 500, kind |-> "exception", lesson |-> "none"]]
              /\ UNCHANGED <<space, idx, taken>>
         ELSE IF Fits(space, l)
         THEN /\ space' = Decrement(space, l)
              /\ taken' = [taken EXCEPT ![r] =
                             [x \in LessonIds |-> @[x] + Took(space, space')[x]]]
              /\ idx' = [idx EXCEPT ![r] = @ + 1]
              /\ pc' = [pc EXCEPT ![r] =
                          IF idx[r] < Len(body[r].lessons) THEN "Reserving"
                          ELSE IF handler[r] = 1 THEN "Numbering" ELSE "Persisting"]
              /\ result' = result
         ELSE \* matchedCount === 0
              /\ pc' = [pc EXCEPT ![r] = "Failed"]
              /\ result' = [result EXCEPT ![r] = CapacityError(body[r].lessons, idx[r])]
              /\ UNCHANGED <<space, idx, taken>>
    /\ UNCHANGED <<initSpace, usedIds, seq, orders, handler, body, num, orderNumber, adminOps, boots, epoch>>

\* handler 1: findOneAndUpdate on the counter, then the order number string;
\* y is what new Date().getFullYear() answers at that moment
Number(r, y) ==
    /\ pc[r] = "Numbering"
    /\ seq' = NextSeq(seq)
    /\ num' = [num EXCEPT ![r] = seq']
    /\ orderNumber' = [orderNumber EXCEPT ![r] = OrderNumber(y, seq')]
    /\ pc' = [pc EXCEPT ![r] = "Persisting"]
    /\ epoch' = [epoch EXCEPT ![r] = boots]
    /\ UNCHANGED <<space, initSpace, usedIds, orders, handler, body, idx, result, taken, adminOps, boots>>

\* the order document each handler builds
OrderRecord(r) ==
    [by |-> r,
     orderNumber |-> orderNumber[r],
     lessons |-> body[r].lessons,
     status |-> IF handler[r] = 1 THEN "pending" ELSE "none",
     completedAt |-> 0]

\* insertOne into orders, then the 200 response
Insert(r) ==
    /\ pc[r] = "Persisting"
    /\ orders' = Append(orders, OrderRecord(r))
    /\ pc' = [pc EXCEPT ![r] = "Committed"]
    /\ result' = [result EXCEPT ![r] = [code |-> 200, kind |-> "ok", lesson |-> "none"]]
    /\ UNCHANGED <<space, initSpace, usedIds, seq, handler, body, idx, num, orderNumber, taken, adminOps, boots, epoch>>

\* mutant: the catch block gives the reserved units back and answers 400
InsertFailRelease(r) ==
    /\ pc[r] = "Persisting"
    /\ pc' = [pc EXCEPT ![r] = "Failed"]
    /\ result' = [result EXCEPT ![r] = [code |-> 400, kind |-> "exception", lesson |-> "none"]]
    /\ space' = [l \in DOMAIN space |-> space[l] + taken[r][l]]
    /\ taken' = [taken EXCEPT ![r] =
                   [x \in LessonIds |-> @[x] + Took(space, space')[x]]]
    /\ UNCHANGED <<initSpace, usedIds, seq, orders, handler, body, idx, num, orderNumber, adminOps, boots, epoch>>

\* insertOne rejects: the catch block answers 500
InsertFail(r) ==
    /\ pc[r] = "Persisting"
    /\ pc' = [pc EXCEPT ![r] = "Failed"]
    /\ result' = [result EXCEPT ![r] = [code |-> 500, kind |-> "exception", lesson |-> "none"]]
    /\ UNCHANGED <<dbVars, initSpace, handler, body, idx, num, orderNumber, taken, adminOps, boots, epoch>>

\* ---------------------------------------------------------- admin routes
\* verifyToken
TokenOk(tok) == tok = "valid"

\* POST /lessons: space must be a non-negative number
CreateLesson(tok, s) ==
    /\ adminOps < MaxAdminOps
    /\ adminOps' = adminOps + 1
    /\ IF TokenOk(tok) /\ SpaceValid(s) /\ usedIds # LessonIds
       THEN \E id \in LessonIds \ usedIds :
               /\ space' = [l \in DOMAIN space \cup {id} |->
                               IF l = id THEN s ELSE space[l]]
               /\ usedIds' = usedIds \cup {id}
       ELSE UNCHANGED <<space, usedIds>>
    /\ UNCHANGED <<initSpace, seq, orders, pc, handler, body, idx, num, orderNumber, result, taken, boots, epoch>>

\* PUT /lessons/:id with { space: s }; the route has no verifyToken, the
\* token the request carries is never read
UpdateLesson(tok, id, s) ==
    /\ adminOps < MaxAdminOps
    /\ adminOps' = adminOps + 1
    /\ IF ObjectIdValid(id) /\ SpaceValid(s) /\ id \in DOMAIN space
       THEN space' = [space EXCEPT ![id] = s]
       ELSE space' = space
    /\ UNCHANGED <<initSpace, usedIds, seq, orders, pc, handler, body, idx, num, orderNumber, result, taken, boots, epoch>>

\* DELETE /lessons/:id
DeleteLesson(tok, id) ==
    /\ adminOps < MaxAdminOps
    /\ adminOps' = adminOps + 1
    /\ IF TokenOk(tok) /\ ObjectIdValid(id) /\ id \in DOMAIN space
       THEN space' = [l \in DOMAIN space \ {id} |-> space[l]]
       ELSE space' = space
    /\ UNCHANGED <<initSpace, usedIds, seq, orders, pc, handler, body, idx, num, orderNumber, result, taken, boots, epoch>>

\* PATCH /orders/:id/done on the k-th order record at time t: an
\* unconditional $set of status and completedAt; k = 0 is an id that
\* matches no order
MarkDone(tok, k, t) ==
    /\ \A j \in 1..Len(orders) : orders[j].completedAt < t
    /\ IF TokenOk(tok) /\ k \in 1..Len(orders)
       THEN orders' = [orders EXCEPT ![k].status = "done", ![k].completedAt = t]
       ELSE orders' = orders
    /\ UNCHANGED <<space, initSpace, usedIds, seq, pc, handler, body, idx, num,
                   orderNumber, result, taken, adminOps, boots, epoch>>

\* the process starts again and connectDB runs against the same database
Restart ==
    /\ boots < MaxRestarts
    /\ boots' = boots + 1
    /\ seq' = SetOnInsert(<<seq>>)
    /\ UNCHANGED <<space, initSpace, usedIds, orders, pc, handler, body, idx, num,
                   orderNumber, result, taken, adminOps, epoch>>

\* the calendar years the clock can answer
Years == FirstYear..(FirstYear + YearSpan)

\* space values an admin request can carry
AdminSpaces == {-1, 0, MaxSpace}

\* ids an admin request can name
AdminIds == LessonIds \cup {"bad"}

\* the steps of the POST /orders calls in flight, ys the years of the clock
OrderStep(ys) ==
    \/ \E r \in Reqs : Validate(r)
    \/ \E r \in Reqs : Reserve(r)
    \/ \E r \in Reqs, y \in ys : Number(r, y)
    \/ \E r \in Reqs : Insert(r)
    \/ \E r \in Reqs : InsertFail(r)

\* concurrent POST /orders calls, no admin traffic
Next ==
    \/ \E r \in Reqs, h \in Handlers, b \in Bodies : Submit(r, h, b)
    \/ OrderStep({FirstYear})

Spec == Init /\ [][Next]_vars

\* POST /orders calls together with the admin routes and a moving calendar
NextEnv ==
    \/ \E r \in Reqs, h \in Handlers, b \in EnvBodies : Submit(r, h, b)
    \/ OrderStep(Years)
    \/ \E tok \in Tokens, s \in AdminSpaces : CreateLesson(tok, s)
    \/ \E tok \in Tokens, id \in AdminIds, s \in AdminSpaces : UpdateLesson(tok, id, s)
    \/ \E tok \in Tokens, id \in AdminIds : DeleteLesson(tok, id)

SpecEnv == Init /\ [][NextEnv]_vars

\* counter documents an earlier run of the server can have left behind
PriorCounters == {<<>>} \cup {<<n>> : n \in {0, 8, 98, 998, 9998, 99998}}

\* the requests served around a restart
BootBodies ==
    {MkBody(NameJo, PhoneGood, TRUE, ls, 0) :
        ls \in {<<MkItem("A", 1)>>, <<MkItem("A", 1), MkItem("B", 1)>>}}

\* the server started on a database that an earlier run may have used
InitBoot ==
    /\ space \in [InitialLessons -> 0..MaxSpace]
    /\ initSpace = space
    /\ usedIds = InitialLessons
    /\ \E docs \in PriorCounters : seq = SetOnInsert(docs)
    /\ orders = <<>>
    /\ pc = [r \in Reqs |-> "idle"]
    /\ handler = [r \in Reqs |-> 1]
    /\ body = [r \in Reqs |-> NoBody]
    /\ idx = [r \in Reqs |-> 0]
    /\ num = [r \in Reqs |-> 0]
    /\ orderNumber = [r \in Reqs |-> <<>>]
    /\ result = [r \in Reqs |-> NoResult]
    /\ taken = [r \in Reqs |-> ZeroTaken]
    /\ adminOps = 0
    /\ boots = 0
    /\ epoch = [r \in Reqs |-> 0]

NextBoot ==
    \/ \E r \in Reqs, h \in Handlers, b \in BootBodies : Submit(r, h, b)
    \/ OrderStep(Years)
    \/ Restart

SpecBoot == InitBoot /\ [][NextBoot]_vars

\* the requests of the calls followed from arrival to response
LiveBodies ==
    EnvBodies \cup {MkBody(NameJo, PhoneGood, TRUE, <<MkItem("A", 1), MkItem("bad", 1)>>, 0)}

NextLive ==
    \/ \E r \in Reqs, h \in Handlers, b \in LiveBodies : Submit(r, h, b)
    \/ OrderStep({FirstYear})

\* every await of a call in flight is answered: the store resolves or rejects
SpecLive ==
    /\ Init
    /\ [][NextLive]_vars
    /\ \A r \in Reqs :
          /\ WF_vars(Validate(r))
          /\ WF_vars(Reserve(r))
          /\ WF_vars(Number(r, FirstYear))
          /\ WF_vars(Insert(r) \/ InsertFail(r))

\* the times new Date() answers to the mark-done requests
Times == 1..MaxTime

\* POST /orders calls and the admin's mark-done requests
NextDone ==
    \/ \E r \in Reqs, h \in Handlers, b \in BootBodies : Submit(r, h, b)
    \/ OrderStep({FirstYear})
    \/ \E tok \in Tokens, k \in 0..Cardinality(Reqs), t \in Times : MarkDone(tok, k, t)

SpecDone == Init /\ [][NextDone]_vars

\* two calls in flight, each asking for all the space lesson A has left;
\* the store answers every request
InitRace ==
    /\ \E n \in 1..MaxSpace :
          /\ space \in {sp \in [InitialLessons -> 0..MaxSpace] : sp["A"] = n}
          /\ body = [r \in Reqs |-> MkBody(NameJo, PhoneGood, TRUE, <<MkItem("A", n)>>, 0)]
    /\ initSpace = space
    /\ usedIds = InitialLessons
    /\ seq = 0
    /\ orders = <<>>
    /\ pc = [r \in Reqs |-> "Validating"]
    /\ handler \in [Reqs -> Handlers]
    /\ idx = [r \in Reqs |-> 0]
    /\ num = [r \in Reqs |-> 0]
    /\ orderNumber = [r \in Reqs |-> <<>>]
    /\ result = [r \in Reqs |-> NoResult]
    /\ taken = [r \in Reqs |-> ZeroTaken]
    /\ adminOps = 0
    /\ boots = 0
    /\ epoch = [r \in Reqs |-> 0]

NextRace ==
    \/ \E r \in Reqs : Validate(r)
    \/ \E r \in Reqs : Reserve(r)
    \/ \E r \in Reqs : Number(r, FirstYear)
    \/ \E r \in Reqs : Insert(r)

SpecRace == InitRace /\ [][NextRace]_vars

\* two calls in flight that name lessons A and B in opposite order, each
\* asking for no more than the lessons hold when both start
InitCross ==
    /\ space \in [InitialLessons -> 1..MaxSpace]
    /\ \E qa, qb, pa, pb \in 1..MaxQty :
          /\ qa <= space["A"] /\ pa <= space["A"]
          /\ qb <= space["B"] /\ pb <= space["B"]
          /\ body = [r \in Reqs |->
                       IF r = "r1"
                       THEN MkBody(NameJo, PhoneGood, TRUE, <<MkItem("A", qa), MkItem("B", qb)>>, 0)
                       ELSE MkBody(NameJo, PhoneGood, TRUE, <<MkItem("B", pb), MkItem("A", pa)>>, 0)]
    /\ initSpace = space
    /\ usedIds = InitialLessons
    /\ seq = 0
    /\ orders = <<>>
    /\ pc = [r \in Reqs |-> "Validating"]
    /\ handler \in [Reqs -> Handlers]
    /\ idx = [r \in Reqs |-> 0]
    /\ num = [r \in Reqs |-> 0]
    /\ orderNumber = [r \in Reqs |-> <<>>]
    /\ result = [r \in Reqs |-> NoResult]
    /\ taken = [r \in Reqs |-> ZeroTaken]
    /\ adminOps = 0
    /\ boots = 0
    /\ epoch = [r \in Reqs |-> 0]

SpecCross == InitCross /\ [][NextRace]_vars

\* ================================================================= claims
Done(r) == pc[r] \in {"Committed", "Failed"}
OrdersBy(r) == {k \in 1..Len(orders) : orders[k].by = r}
Numbered == {k \in 1..Len(orders) : orders[k].orderNumber # <<>>}

RECURSIVE Committed(_, _)
\* total quantity of lesson l over the first k order records
Committed(k, l) ==
    IF k = 0 THEN 0 ELSE SumQty(orders[k].lessons, l) + Committed(k - 1, l)

\* C1: no oversell -- under any interleaving of POST /orders calls (either
\* handler) and admin lesson create / update / delete, the space of every
\* lesson is >= 0 in every reachable state.
C1_NoOversell == \A l \in DOMAIN space : space[l] >= 0

\* C1 witness: a call has taken the last unit of a lesson while the admin
\* routes were in use
C1_Witness ==
    /\ adminOps > 0
    /\ \E r \in Reqs, l \in DOMAIN space : taken[r][l] > 0 /\ space[l] = 0

C3_Compensated ==
    \A r \in Reqs :
        pc[r] = "Failed" /\ result[r].kind = "capacity" => taken[r] = ZeroTaken

\* C4: a committed call has taken from each lesson exactly the sum of that
\* lesson's line-item quantities (0 from every other lesson) and has
\* inserted exactly one order record, with status pending in handler 1.
C4_SuccessEffect ==
    \A r \in Reqs :
        pc[r] = "Committed" =>
            /\ \A l \in LessonIds : taken[r][l] = SumQty(body[r].lessons, l)
            /\ Cardinality(OrdersBy(r)) = 1
            /\ \A k \in OrdersBy(r) :
                  /\ orders[k].lessons = body[r].lessons
                  /\ handler[r] = 1 => orders[k].status = "pending"

\* C4 witness: a committed order with two line items on the same lesson
C4_Witness ==
    \E r \in Reqs :
        /\ pc[r] = "Committed"
        /\ Len(body[r].lessons) = 2
        /\ taken[r]["A"] = 2

\* C5: order numbers never repeat -- no two calls hold the same sequence
\* value, and no two order records that carry an order number carry the
\* same one.
C5_NumbersDistinct ==
    /\ \A r1, r2 \in Reqs :
          r1 # r2 /\ num[r1] # 0 /\ num[r2] # 0 => num[r1] # num[r2]
    /\ \A i, j \in Numbered : i # j => orders[i].orderNumber # orders[j].orderNumber

\* C5 witness: two numbered order records are in the collection
C5_Witness == Cardinality(Numbered) = 2

\* C6 (as claimed): the orders collection read in insertion order has
\* strictly increasing sequence numbers.
C6_InsertionOrdered ==
    \A i, j \in Numbered : i < j => num[orders[i].by] < num[orders[j].by]

\* C6 (amended): a call that obtains its number when another call's order
\* record is already written gets a sequence value strictly greater than
\* that record's.
C6_LaterCallGreater ==
    [][\A r \in Reqs :
          pc[r] = "Numbering" /\ pc'[r] = "Persisting" =>
             \A k \in Numbered : num'[r] > num[orders[k].by]]_vars

\* C6 witness: a call holds a number greater than that of a written record
C6_Witness ==
    \E r \in Reqs, k \in Numbered :
        orders[k].by # r /\ num[r] > num[orders[k].by]

\* C7 (as claimed): with no admin edits, the total quantity of a lesson
\* over all order records never exceeds the lesson's initial space.
C7_NoDoubleCommit ==
    \A l \in InitialLessons : Committed(Len(orders), l) <= initSpace[l]

\* C8 (as claimed): a call whose lessons array holds a line item with a
\* malformed id or a quantity that is not a positive integer is answered
\* 400 by the validation and changes no lesson's space, in both handlers.
C8_LineItemsRejected ==
    \A r \in Reqs :
        /\ pc[r] \notin {"idle", "Validating"}
        /\ NameValid(body[r].name) /\ PhoneValid(body[r].phone)
        /\ \E k \in 1..Len(body[r].lessons) : ~LineItemValid(body[r].lessons[k])
        => /\ pc[r] = "Failed"
           /\ result[r].code = 400
           /\ result[r].kind \in ValidationKinds
           /\ taken[r] = ZeroTaken

\* C9: a call answered with a validation error has had no side effects:
\* it took nothing from any lesson, obtained no number from the counter
\* and wrote no order record.
C9_ValidationNoEffect ==
    \A r \in Reqs :
        pc[r] = "Failed" /\ result[r].kind \in ValidationKinds =>
            /\ result[r].code = 400
            /\ taken[r] = ZeroTaken
            /\ num[r] = 0
            /\ OrdersBy(r) = {}

\* C9 witness: a line item was rejected while the other call changed the store
C9_Witness ==
    \E r \in Reqs :
        /\ pc[r] = "Failed" /\ result[r].kind = "lineitem"
        /\ \E o \in Reqs \ {r} : taken[o] # ZeroTaken

AllReserved(r) == idx[r] > 0 /\ idx[r] = Len(body[r].lessons) + 1

\* C11: a call that fails after all its line items were reserved (the
\* order record could not be written) is answered 500, not the 400 of the
\* validation and capacity errors, has no order record, and keeps the
\* space it took: nothing is released.
C11_PersistenceFailure ==
    \A r \in Reqs :
        pc[r] = "Failed" /\ AllReserved(r) =>
            /\ result[r].code = 500
            /\ result[r].kind \notin ValidationKinds \cup {"capacity"}
            /\ OrdersBy(r) = {}
            /\ \A l \in LessonIds : taken[r][l] = SumQty(body[r].lessons, l)

\* C11 witness: the insert of a two-item order failed after both lessons
\* were decremented
C11_Witness ==
    \E r \in Reqs :
        /\ pc[r] = "Failed" /\ AllReserved(r)
        /\ taken[r]["A"] = 1 /\ taken[r]["B"] = 1
        /\ space["A"] = initSpace["A"] - 1


\* C12: connectDB never clobbers the counter: a restart leaves seq as it
\* is, so a number issued after a restart is strictly greater than every
\* number issued before it; the counter is never below what was issued.
C12_RestartKeepsCounter ==
    /\ \A r \in Reqs : num[r] # 0 => seq >= num[r]
    /\ \A r, o \in Reqs :
          num[r] # 0 /\ num[o] # 0 /\ epoch[o] < epoch[r] => num[o] < num[r]

\* C12 witness: one call got its number before the restart, one after
C12_Witness ==
    \E r, o \in Reqs :
        /\ num[r] # 0 /\ num[o] # 0
        /\ epoch[o] = 0 /\ epoch[r] = 1


\* C13 (as claimed): once an order is done, no later operation, a repeated
\* mark-done included, changes its status or its completedAt.
C13_DoneOnce ==
    [][\A k \in 1..Len(orders) :
          orders[k].status = "done" =>
             /\ orders'[k].status = "done"
             /\ orders'[k].completedAt = orders[k].completedAt]_vars

\* C14 (as claimed): an admin request on the lessons that carries no valid
\* token leaves the lessons and the orders unchanged.
C14_AdminBehindToken ==
    [][\A tok \in Tokens :
          /\ ~TokenOk(tok)
          /\ \/ \E s \in AdminSpaces : CreateLesson(tok, s)
             \/ \E id \in AdminIds, s \in AdminSpaces : UpdateLesson(tok, id, s)
             \/ \E id \in AdminIds : DeleteLesson(tok, id)
          => space' = space /\ orders' = orders]_vars


RECURSIVE ParseDigits(_)
\* the number a string of decimal digits denotes (Number(s))
ParseDigits(s) ==
    IF s = <<>> THEN 0
    ELSE 10 * ParseDigits(SubSeq(s, 1, Len(s) - 1))
         + (CHOOSE d \in 0..9 : DigitChars[d + 1] = s[Len(s)])

RECURSIVE NumDigits(_)
\* how many decimal digits n >= 0 has
NumDigits(n) == IF n < 10 THEN 1 ELSE 1 + NumDigits(n \div 10)

AllDigits(s) == \A k \in 1..Len(s) : s[k] \in DigitSet

\* the part of an order number after 'ORD-yyyy-'
Suffix(on) == SubSeq(on, 10, Len(on))

\* C15: the order number of a call that drew counter value s is 'ORD-', the
\* four digits of the year, '-', and the decimal digits of s left-padded with
\* '0' to at least four characters: shorter numbers are padded to exactly four,
\* numbers from 10000 on keep all their digits, the digits read back give s,
\* and two calls with different counter values have different order numbers.
C15_OrderNumberFormat ==
    /\ \A r \in Reqs : num[r] # 0 =>
          LET on == orderNumber[r] IN
          /\ Len(on) >= 9 + PadWidth
          /\ SubSeq(on, 1, 4) = <<"O", "R", "D", "-">>
          /\ AllDigits(SubSeq(on, 5, 8))
          /\ ParseDigits(SubSeq(on, 5, 8)) \in Years
          /\ on[9] = "-"
          /\ AllDigits(Suffix(on))
          /\ Len(Suffix(on)) = IF NumDigits(num[r]) > PadWidth
                               THEN NumDigits(num[r]) ELSE PadWidth
          /\ ParseDigits(Suffix(on)) = num[r]
    /\ \A r, o \in Reqs :
          num[r] # 0 /\ num[o] # 0 /\ num[r] # num[o]
             => Suffix(orderNumber[r]) # Suffix(orderNumber[o])

\* one call drew 9999 (four digits, no padding) and the next drew 10000,
\* whose five digits are all in its order number
C15_Witness ==
    \E r, o \in Reqs :
        /\ num[o] = 9999 /\ Len(Suffix(orderNumber[o])) = 4
        /\ num[r] = 10000 /\ Len(Suffix(orderNumber[r])) = 5


\* the line items of call r before position k
Prefix(r, k) == SubSeq(body[r].lessons, 1, k - 1)

\* C16: the line items are reserved one at a time in input order: a call whose
\* loop stands at position k has decremented exactly the items before k, and a
\* call that failed on capacity at item k has decremented exactly items
\* 1..k-1; item k and the items after it were not taken.
C16_PrefixReserved ==
    \A r \in Reqs : idx[r] >= 1 =>
        /\ idx[r] <= Len(body[r].lessons) + 1
        /\ \A l \in LessonIds : taken[r][l] = SumQty(Prefix(r, idx[r]), l)
        /\ pc[r] = "Reserving" => idx[r] <= Len(body[r].lessons)
        /\ pc[r] = "Failed" /\ result[r].kind = "capacity" =>
              /\ idx[r] <= Len(body[r].lessons)
              /\ result[r].lesson = body[r].lessons[idx[r]].id

\* a call failed on capacity at its second item: its first item (one unit of
\* A) stays taken and nothing of B was taken
C16_Witness ==
    \E r \in Reqs :
        /\ pc[r] = "Failed" /\ result[r].kind = "capacity" /\ idx[r] = 2
        /\ body[r].lessons[1].id = "A" /\ body[r].lessons[2].id = "B"
        /\ taken[r]["A"] = 1 /\ taken[r]["B"] = 0
        /\ body[r].lessons[2].qty > 0


\* how far a call has come: a later state has a higher stage
Stage(p) ==
    CASE p = "idle" -> 0
      [] p = "Validating" -> 1
      [] p = "Reserving" -> 2
      [] p = "Numbering" -> 3
      [] p = "Persisting" -> 4
      [] p \in {"Committed", "Failed"} -> 5

\* the transitions of one call: Validating -> Reserving(1) -> ... ->
\* Reserving(n) -> (Numbering ->) Persisting -> Committed, or Failed from
\* Validating, Reserving or Persisting
LinearStep(r) ==
    /\ pc'[r] # pc[r] => Stage(pc'[r]) > Stage(pc[r])
    /\ pc'[r] = pc[r] /\ idx'[r] # idx[r] =>
          pc[r] = "Reserving" /\ idx'[r] = idx[r] + 1
    /\ pc'[r] = "Reserving" /\ pc[r] # "Reserving" => pc[r] = "Validating" /\ idx'[r] = 1
    /\ pc'[r] = "Numbering" => pc[r] \in {"Numbering", "Reserving"}
    /\ pc'[r] = "Committed" => pc[r] \in {"Committed", "Persisting"}
    /\ pc'[r] = "Failed" => pc[r] \in {"Failed", "Validating", "Reserving", "Persisting"}
    /\ result[r] # NoResult => result'[r] = result[r] /\ pc'[r] = pc[r]

\* C17: a call is one linear attempt: each step moves it forward (or to the
\* next line item), it never returns to an earlier state or line item, a
\* response is sent exactly when it ends and is never sent again, and a call
\* whose awaits are all answered ends Committed or Failed.
C17_LinearAttempt ==
    /\ [][\A r \in Reqs : LinearStep(r)]_vars
    /\ [](\A r \in Reqs : Done(r) <=> result[r] # NoResult)
    /\ [](\A r \in Reqs : pc[r] = "Committed" <=> result[r].code = 200)
    /\ \A r \in Reqs : (pc[r] = "Validating") ~> Done(r)

\* one call went through both line items, the counter and the insert and
\* answered 200 while the other ended with a failure response
C17_Witness ==
    \E r, o \in Reqs :
        /\ pc[r] = "Committed" /\ idx[r] = 3 /\ num[r] = 1 /\ result[r].code = 200
        /\ pc[o] = "Failed" /\ result[o].code \in {400, 500}


RECURSIVE ReservedSoFar(_, _)
\* the units of lesson l that the calls in S have written to the store: for
\* each call the line items its loop has passed
ReservedSoFar(S, l) ==
    IF S = {} THEN 0
    ELSE LET r == CHOOSE x \in S : TRUE IN
         (IF idx[r] >= 1 THEN SumQty(Prefix(r, idx[r]), l) ELSE 0)
         + ReservedSoFar(S \ {r}, l)

\* a call stands between its first line item (lesson A) and its second
\* (lesson B)
BetweenItems(r) ==
    /\ pc[r] = "Reserving" /\ idx[r] = 2
    /\ body[r].lessons[1].id = "A" /\ body[r].lessons[2].id = "B"

\* C18: a multi-item order is not atomic: the store always shows the
\* decrements of the line items each call has passed, whether or not the
\* call has finished, so while a call stands between its two items lesson A
\* is already decremented for it and lesson B is not, and the other calls
\* read that state.
C18_PartialVisible ==
    /\ \A l \in DOMAIN space : space[l] = initSpace[l] - ReservedSoFar(Reqs, l)
    /\ \A r \in Reqs : BetweenItems(r) =>
          /\ taken[r]["A"] = body[r].lessons[1].qty
          /\ taken[r]["B"] = 0

\* while r stands between its items, having taken the only unit of A and
\* nothing of B, the other call asked for one unit of A and was refused
C18_Witness ==
    \E r, o \in Reqs :
        /\ BetweenItems(r)
        /\ initSpace["A"] = 1 /\ space["A"] = 0 /\ space["B"] = initSpace["B"]
        /\ body[o].lessons = <<MkItem("A", 1)>>
        /\ pc[o] = "Failed" /\ result[o].kind = "capacity" /\ result[o].lesson = "A"


CapacityFailed(r) == pc[r] = "Failed" /\ result[r].kind = "capacity"

\* C19 (as claimed): of two calls that name the same two lessons in opposite
\* order, each fitting alone, at least one commits: they never both end with
\* a capacity error.
C19_OneCommits == ~(\A r \in Reqs : CapacityFailed(r))

\* C19 (amended): the two calls can both end with a capacity error, but only
\* in one way: each reserved its first line item and was refused on its
\* second, the lesson the other call reserved first; no call is refused on
\* its first line item unless the other call has taken from that lesson, no
\* order is committed then, and the units of both first items stay
\* decremented.
C19_CrossFailure ==
    /\ \A r \in Reqs : CapacityFailed(r) /\ idx[r] = 1 =>
          \E o \in Reqs \ {r} : taken[o][body[r].lessons[1].id] > 0
    /\ (\A r \in Reqs : CapacityFailed(r)) =>
          /\ orders = <<>>
          /\ \A r \in Reqs :
                /\ idx[r] = 2
                /\ result[r].lesson = body[r].lessons[2].id
                /\ \E o \in Reqs \ {r} : result[r].lesson = body[o].lessons[1].id
                /\ taken[r][body[r].lessons[1].id] = body[r].lessons[1].qty
                /\ space[body[r].lessons[1].id]
                      = initSpace[body[r].lessons[1].id] - body[r].lessons[1].qty

\* both calls reserved their first lesson's only unit and were refused on the
\* other: no order, both lessons emptied
C19_Witness ==
    /\ \A r \in Reqs : CapacityFailed(r) /\ idx[r] = 2
    /\ initSpace["A"] = 1 /\ initSpace["B"] = 1
    /\ space["A"] = 0 /\ space["B"] = 0
    /\ orders = <<>>


\* the calls that drew a number from the counter
Drew == {r \in Reqs : num[r] # 0}

\* C20: the counter is advanced only by calls of the numbering handler whose
\* every line item was reserved, once per such call, so the counter equals
\* the number of numbered orders recorded plus the number of calls that drew
\* a number and have no order recorded, and every issued number that no
\* order carries belongs to a call that is about to insert or whose insert
\* failed. (The second handler records its orders without drawing a number.)
C20_CounterAccounting ==
    /\ seq = Cardinality(Drew)
    /\ \A r \in Reqs :
          /\ r \in Drew =>
                /\ handler[r] = 1
                /\ AllReserved(r)
                /\ \A l \in LessonIds : taken[r][l] = SumQty(body[r].lessons, l)
          /\ handler[r] = 1 /\ AllReserved(r) /\ pc[r] # "Numbering" => r \in Drew
          /\ handler[r] = 2 => num[r] = 0
    /\ seq = Cardinality(Numbered) + Cardinality({r \in Drew : OrdersBy(r) = {}})
    /\ \A n \in 1..seq :
          \/ \E k \in Numbered : orders[k].orderNumber = OrderNumber(FirstYear, n)
          \/ \E r \in Drew :
                /\ num[r] = n
                /\ \/ pc[r] = "Persisting"
                   \/ pc[r] = "Failed" /\ result[r].code = 500

\* number 1 went to a call whose insert failed and number 2 to a call that
\* committed: the counter is 2, one order is recorded, number 1 is a gap
C20_Witness ==
    \E r, o \in Reqs :
        /\ num[o] = 1 /\ pc[o] = "Failed" /\ OrdersBy(o) = {}
        /\ num[r] = 2 /\ pc[r] = "Committed"
        /\ seq = 2 /\ Cardinality(Numbered) = 1

====
